---- MODULE Spec2Model ----
(***************************************************************************)
(* HarmonyPlayer: the AudioEngine (load_file, play, start_crossfade,       *)
(* handle_crossfade) and the MusicPlayer volume controls (volume hotkeys,  *)
(* toggle_mute) of src/harmony_player.py.                                  *)
(*                                                                         *)
(* The source elides MusicPlayer.set_volume, AudioEngine.get_volume, the   *)
(* track-advance and stop handlers and the crossfade_duration setter       *)
(* ("rest of ... methods"); those are modelled from spec.md and are        *)
(* marked "spec.md" in their comments.                                     *)
(***************************************************************************)
EXTENDS Integers, Sequences, FiniteSets, TLC

VARIABLES
    engine,       \* the AudioEngine object: its fields are listed in TypeOK
    last_volume,  \* MusicPlayer.last_volume; NoAttr while the attribute does not exist
    ret,          \* what the last engine call returned to its caller
    op            \* the name of the last operation that ran

vars == <<engine, last_volume, ret, op>>

----------------------------------------------------------------------------
(* Constants of the program *)

\* QTimer interval of the crossfade tick, in ms: crossfade_timer.start(100)
TickMs == 100
\* AudioEngine.__init__: self.crossfade_duration = 3
InitialCrossfadeDuration == 3
\* start_crossfade: fade_out_player.audio_set_volume(100)
FadeOutStartVolume == 100
\* hotkeys: min(100, ...) and max(0, ...) ; +5 / -5
VolumeMax == 100
VolumeMin == 0
VolumeStep == 5
\* toggle_mute: fallback when last_volume was never recorded
MuteFallback == 70
\* DEFAULT_CONFIG['audio']['volume']
DefaultVolume == 70

(* Bounds of the model *)

\* the crossfade_duration setter is given 0..MaxDuration seconds
MaxDuration == 1
\* tracks are 1..NumTracks; 0 is "no media" (None)
NumTracks == 2
\* the count of fired ticks is kept up to MaxTicks (1.2 s of ticks) and saturates there
MaxTicks == 12

MsPerSecond == 1000

Tracks == 1..NumTracks
NoMedia == 0
NoAttr == -1
Durations == (0..MaxDuration) \cup {InitialCrossfadeDuration}
\* volume arguments tried for set_volume, some of them out of range
VolumeInputs == {-5, 70, 105}
\* values of config['audio']['volume'] tried at start-up
ConfigVolumes == {-5, DefaultVolume, 105}

Min(a, b) == IF a < b THEN a ELSE b
Max(a, b) == IF a > b THEN a ELSE b
Clamp(v, lo, hi) == Max(lo, Min(hi, v))

----------------------------------------------------------------------------
(* AudioEngine *)

\* instance.media_player_new(): a player with no media, stopped
NewPlayer(vol) == [media |-> NoMedia, volume |-> vol, playing |-> FALSE]

\* AudioEngine.__init__ : the fields the model keeps.
\*   timer_fired and fade_duration observe the crossfade timer: how many times
\*   it has fired since it was (re)started and the crossfade_duration in force
\*   when it was started. base_volume belongs to the crossfade session of
\*   spec.md 4.2; the code of src/ never reads or writes it.
EngineInit ==
    [ player             |-> NewPlayer(VolumeMax),
      current_media      |-> NoMedia,
      crossfade_timer    |-> FALSE,
      crossfade_duration |-> InitialCrossfadeDuration,
      fade_out_player    |-> << >>,
      timer_fired        |-> 0,
      fade_duration      |-> 0,
      base_volume        |-> 0 ]

\* player.play(): 0 on success, -1 when the player has nothing to play
player_play(e) ==
    IF e.player.media = NoMedia
    THEN [eng |-> e, rc |-> -1]
    ELSE [eng |-> [e EXCEPT !.player.playing = TRUE], rc |-> 0]

\* load_file with current_media assigned before the parse that raises
load_file_assigns_before_parse(e, t, ok) ==
    IF ok
    THEN [eng |-> [e EXCEPT !.player.media = t, !.current_media = t], rc |-> TRUE]
    ELSE [eng |-> [e EXCEPT !.current_media = t], rc |-> FALSE]

\* AudioEngine.load_file: ok = FALSE when media_new / parse_with_options raises
load_file(e, t, ok) ==
    IF ok
    THEN [eng |-> [e EXCEPT !.player.media = t, !.current_media = t], rc |-> TRUE]
    ELSE [eng |-> e, rc |-> FALSE]

\* start_crossfade without crossfade_timer.start(100)
start_crossfade_without_timer(e) ==
    player_play(
        [e EXCEPT !.fade_out_player = << [e.fade_out_player[1] EXCEPT !.volume = FadeOutStartVolume] >>,
                  !.player.volume = 0]).eng

\* AudioEngine.start_crossfade
start_crossfade(e) ==
    player_play(
        [e EXCEPT !.crossfade_timer = TRUE,
                  !.timer_fired = 0,
                  !.fade_duration = e.crossfade_duration,
                  !.fade_out_player = << [e.fade_out_player[1] EXCEPT !.volume = FadeOutStartVolume] >>,
                  !.player.volume = 0]).eng

\* play without the crossfade_duration > 0 test
play_ignoring_duration(e) ==
    IF Len(e.fade_out_player) > 0
    THEN [eng |-> start_crossfade(e), rc |-> TRUE]
    ELSE [eng |-> player_play(e).eng, rc |-> player_play(e).rc = 0]

\* AudioEngine.play
play(e) ==
    IF e.crossfade_duration > 0 /\ Len(e.fade_out_player) > 0
    THEN [eng |-> start_crossfade(e), rc |-> TRUE]
    ELSE [eng |-> player_play(e).eng, rc |-> player_play(e).rc = 0]

\* AudioEngine.handle_crossfade: the body is "pass"; the timer has fired once more
handle_crossfade(e) ==
    [e EXCEPT !.timer_fired = Min(MaxTicks, e.timer_fired + 1)]

\* AudioEngine.get_volume (spec.md glossary: the live handle reports the volume)
get_volume(e) == e.player.volume

\* MusicPlayer.set_volume (spec.md 4.1: level clamped to [0,100], applied to the live handle)
set_volume(e, v) == [e EXCEPT !.player.volume = Clamp(v, VolumeMin, VolumeMax)]

\* crossfade cancellation (spec.md 4.2 step 5): release the outgoing handle, snap
\* the incoming handle to base_volume, promote it, cancel the tick
settle(e) ==
    IF e.crossfade_timer
    THEN [e EXCEPT !.fade_out_player = << >>,
                   !.player.volume = e.base_volume,
                   !.crossfade_timer = FALSE,
                   !.timer_fired = 0,
                   !.fade_duration = 0,
                   !.base_volume = 0]
    ELSE e

\* stop (spec.md 4.1): cancels any active crossfade, then backend stop
stop(e) == [settle(e) EXCEPT !.player.playing = FALSE]

\* the incoming side of an advance (spec.md 4.2 step 1): the live player becomes
\* fade_out_player, a new handle becomes the player, base_volume is captured
bind_incoming(e) ==
    [e EXCEPT !.fade_out_player = << e.player >>,
              !.base_volume = e.player.volume,
              !.player = NewPlayer(0)]

\* advanceTrack (spec.md 4.2): cancel-and-settle a running crossfade, then load
\* the target and play(); with crossfade enabled and a track playing the target
\* is bound to a new handle. A failed load keeps the outgoing track live.
advance(e, t, ok) ==
    LET s == settle(e)
        fading == s.crossfade_duration > 0 /\ s.player.media # NoMedia
        loaded == load_file(IF fading THEN bind_incoming(s) ELSE s, t, ok)
    IN  IF loaded.rc
        THEN [eng |-> play(loaded.eng).eng, rc |-> TRUE]
        ELSE [eng |-> s, rc |-> FALSE]

\* crossfade_duration setter (spec.md 6: set on explicit setter calls)
set_crossfade_duration(e, d) == [e EXCEPT !.crossfade_duration = d]

----------------------------------------------------------------------------
(* MusicPlayer: volume hotkeys and mute *)

\* Ctrl+Up: set_volume(min(100, get_volume() + 5))
volume_up(e) == set_volume(e, Min(VolumeMax, get_volume(e) + VolumeStep))

\* Ctrl+Down: set_volume(max(0, get_volume() - 5))
volume_down(e) == set_volume(e, Max(VolumeMin, get_volume(e) - VolumeStep))

\* toggle_mute recording last_volume after set_volume(0) instead of before it
toggle_mute_records_after_mute(e, lv) ==
    IF get_volume(e) > 0
    THEN [eng |-> set_volume(e, 0), last_volume |-> get_volume(set_volume(e, 0))]
    ELSE [eng |-> set_volume(e, IF lv # NoAttr THEN lv ELSE MuteFallback),
          last_volume |-> lv]

\* toggle_mute recording last_volume before the test of current > 0
toggle_mute_records_always(e, lv) ==
    IF get_volume(e) > 0
    THEN [eng |-> set_volume(e, 0), last_volume |-> get_volume(e)]
    ELSE [eng |-> set_volume(e, get_volume(e)), last_volume |-> get_volume(e)]

\* toggle_mute testing current >= 0 instead of current > 0
toggle_mute_tests_nonnegative(e, lv) ==
    IF get_volume(e) >= 0
    THEN [eng |-> set_volume(e, 0), last_volume |-> get_volume(e)]
    ELSE [eng |-> set_volume(e, IF lv # NoAttr THEN lv ELSE MuteFallback),
          last_volume |-> lv]

\* MusicPlayer.toggle_mute: the pair <<engine, last_volume>> after the call
toggle_mute(e, lv) ==
    IF get_volume(e) > 0
    THEN [eng |-> set_volume(e, 0), last_volume |-> get_volume(e)]
    ELSE [eng |-> set_volume(e, IF lv # NoAttr THEN lv ELSE MuteFallback),
          last_volume |-> lv]

----------------------------------------------------------------------------
(* Actions *)

\* the configured volume written to the player without set_volume
LoadInitialState_unclamped(cfg) == [EngineInit EXCEPT !.player.volume = cfg]

\* MusicPlayer.__init__: AudioEngine(), then set_volume(int(config['audio']['volume']))
LoadInitialState(cfg) == set_volume(EngineInit, cfg)

Init ==
    /\ \E cfg \in ConfigVolumes : engine = LoadInitialState(cfg)
    /\ last_volume = NoAttr
    /\ ret = TRUE
    /\ op = "init"

LoadFile ==
    \E t \in Tracks, ok \in BOOLEAN :
        /\ engine' = load_file(engine, t, ok).eng
        /\ ret' = load_file(engine, t, ok).rc
        /\ op' = "load_file"
        /\ UNCHANGED last_volume

Play ==
    /\ engine' = play(engine).eng
    /\ ret' = play(engine).rc
    /\ op' = "play"
    /\ UNCHANGED last_volume

\* the QTimer fires only while it is active
HandleCrossfade ==
    /\ engine.crossfade_timer
    /\ engine' = handle_crossfade(engine)
    /\ op' = "handle_crossfade"
    /\ UNCHANGED <<last_volume, ret>>

Advance ==
    \E t \in Tracks, ok \in BOOLEAN :
        /\ engine' = advance(engine, t, ok).eng
        /\ ret' = advance(engine, t, ok).rc
        /\ op' = "advance"
        /\ UNCHANGED last_volume

Stop ==
    /\ engine' = stop(engine)
    /\ op' = "stop"
    /\ UNCHANGED <<last_volume, ret>>

SetCrossfadeDuration ==
    \E d \in 0..MaxDuration :
        /\ engine' = set_crossfade_duration(engine, d)
        /\ op' = "set_crossfade_duration"
        /\ UNCHANGED <<last_volume, ret>>

SetVolume ==
    \E v \in VolumeInputs :
        /\ engine' = set_volume(engine, v)
        /\ op' = "set_volume"
        /\ UNCHANGED <<last_volume, ret>>

VolumeUp ==
    /\ engine' = volume_up(engine)
    /\ op' = "volume_up"
    /\ UNCHANGED <<last_volume, ret>>

VolumeDown ==
    /\ engine' = volume_down(engine)
    /\ op' = "volume_down"
    /\ UNCHANGED <<last_volume, ret>>

ToggleMute ==
    /\ engine' = toggle_mute(engine, last_volume).eng
    /\ last_volume' = toggle_mute(engine, last_volume).last_volume
    /\ op' = "toggle_mute"
    /\ UNCHANGED ret

\* the engine driven by its commands and its crossfade tick
Next ==
    \/ LoadFile
    \/ Play
    \/ HandleCrossfade
    \/ Advance
    \/ Stop
    \/ SetCrossfadeDuration
    \/ SetVolume

Spec == Init /\ [][Next]_vars

\* the volume controls alone: set_volume, the volume hotkeys and toggle_mute
NextVolume ==
    \/ SetVolume
    \/ VolumeUp
    \/ VolumeDown
    \/ ToggleMute

SpecVolume == Init /\ [][NextVolume]_vars

----------------------------------------------------------------------------
(* What the claims speak of *)

TypeOK ==
    /\ engine.player.media \in {NoMedia} \cup Tracks
    /\ engine.player.volume \in Int
    /\ engine.player.playing \in BOOLEAN
    /\ engine.current_media \in {NoMedia} \cup Tracks
    /\ engine.crossfade_timer \in BOOLEAN
    /\ engine.crossfade_duration \in Durations
    /\ Len(engine.fade_out_player) \in {0, 1}
    /\ engine.timer_fired \in 0..MaxTicks
    /\ last_volume \in {NoAttr} \cup Int
    /\ ret \in BOOLEAN

\* the number of backend handles the engine holds
HandleCount(e) == 1 + Len(e.fade_out_player)

\* time ticked since the crossfade timer was started, and the fade's duration, in ms
ElapsedMs(e) == e.timer_fired * TickMs
FadeMs(e) == e.fade_duration * MsPerSecond

\* base * f for f = min(1, elapsed / duration), in integer volume units
RampUp(e) == (e.base_volume * Min(ElapsedMs(e), FadeMs(e))) \div FadeMs(e)
RampDown(e) == e.base_volume - RampUp(e)

\* no crossfade: one live handle at base volume, nothing outgoing, tick cancelled
Settled(e) ==
    /\ HandleCount(e) = 1
    /\ ~e.crossfade_timer

----------------------------------------------------------------------------
\* C1: once a crossfade of duration D has been started, after ticks totalling D
\* the crossfade has ended: the tick timer is stopped, the outgoing handle is
\* released and the incoming player is the one live handle.
C1_CrossfadeEndsAfterD ==
    (engine.crossfade_timer /\ engine.fade_duration > 0)
        => ElapsedMs(engine) < FadeMs(engine)

C4_MuteRoundTrip ==
    [][ (get_volume(engine) > 0 /\ ToggleMute)
        => ( /\ get_volume(engine') = 0
             /\ get_volume(toggle_mute(engine', last_volume').eng) = get_volume(engine) ) ]_vars

C4_Witness ==
    /\ op = "toggle_mute"
    /\ get_volume(engine) = 0
    /\ last_volume = 60

C6_FailedLoadHarmless ==
    [][ /\ (op' = "load_file" /\ ~ret' /\ LoadFile) => engine' = engine
        /\ (op' = "advance" /\ ~ret' /\ Advance)
            => ( /\ engine'.player.media = engine.player.media
                 /\ engine'.player.playing = engine.player.playing
                 /\ engine'.current_media = engine.current_media
                 /\ (~engine.crossfade_timer => engine' = engine) ) ]_vars

C6_Witness ==
    /\ op = "load_file"
    /\ ~ret
    /\ engine.crossfade_timer
    /\ engine.player.playing
    /\ engine.current_media # NoMedia

\* C7: handle-count invariant: the engine holds two handles (fade_out_player and
\* the player) exactly while the crossfade timer is running; otherwise it holds
\* the one live handle and fade_out_player is empty.
C7_HandleCount ==
    /\ HandleCount(engine) \in {1, 2}
    /\ (HandleCount(engine) = 2) <=> engine.crossfade_timer

C7_Witness ==
    /\ engine.crossfade_timer
    /\ HandleCount(engine) = 2
    /\ engine.timer_fired > 0

\* C8: crossfade ramp: when a crossfade starts and at every tick, with
\* f = elapsed / duration clamped to [0,1], the outgoing volume is
\* base_volume * (1 - f) and the incoming volume is base_volume * f.
C8_Ramp ==
    [][ ( /\ engine'.crossfade_timer
          /\ engine'.fade_duration > 0
          /\ op' \in {"advance", "play", "handle_crossfade"}
          /\ (Advance \/ Play \/ HandleCrossfade) )
        => ( /\ engine'.fade_out_player[1].volume = RampDown(engine')
             /\ engine'.player.volume = RampUp(engine') ) ]_vars

\* C9: a play() that arrives while a crossfade is in flight never restarts the
\* ramp of the running session from zero, and no more than two handles are held.
C9_NoRestart ==
    [][ ( /\ engine.crossfade_timer
          /\ engine.timer_fired > 0
          /\ op' = "play"
          /\ Play )
        => ( /\ ~( /\ engine'.crossfade_timer
                   /\ engine'.timer_fired = 0
                   /\ engine'.fade_out_player[1].media = engine.fade_out_player[1].media )
             /\ HandleCount(engine') <= 2 ) ]_vars

\* C10: toggle_mute at volume 0 restores the recorded pre-mute volume if one was
\* recorded and sets the fallback 70 if none ever was; the volume never stays 0.
C10_UnmuteFromZero ==
    [][ (get_volume(engine) = 0 /\ ToggleMute)
        => ( /\ get_volume(engine') =
                    (IF last_volume # NoAttr THEN last_volume ELSE MuteFallback)
             /\ get_volume(engine') > 0
             /\ last_volume' = last_volume ) ]_vars

C10_Witness ==
    /\ op = "toggle_mute"
    /\ get_volume(engine) = MuteFallback
    /\ last_volume = NoAttr

\* C11: after any sequence of set_volume, volume hotkey and toggle_mute
\* operations the recorded pre-mute volume, whenever it is defined, is in 1..100
\* (never 0), and every toggle_mute flips the mute status: a volume above 0
\* becomes 0 and a volume of 0 becomes a volume above 0.
C11_MuteAlwaysFlips ==
    /\ [](last_volume # NoAttr => last_volume \in 1..VolumeMax)
    /\ [][ ToggleMute
            => ( /\ (get_volume(engine) > 0 => get_volume(engine') = 0)
                 /\ (get_volume(engine) = 0 => get_volume(engine') > 0) ) ]_vars

C11_Witness ==
    /\ op = "toggle_mute"
    /\ last_volume \in 1..VolumeMax
    /\ get_volume(engine) = last_volume
====
